---- MODULE Spec2Model ----
(***************************************************************************)
(* Model of the security-group reconciliation of waldur_os_security_group: *)
(* main() / send_request_to_waldur() as a state machine over one module    *)
(* invocation (optionally followed by a second invocation with the same    *)
(* parameters), with compare_rules and compare_description as operators.   *)
(*                                                                         *)
(* A rule (a Python dict) is a function from the set of keys it contains   *)
(* to their values; "key in rule" is membership in DOMAIN.                 *)
(* Python None is "None" for string parameters and the empty function <<>> *)
(* for dict-valued results (both are falsy, like None).                    *)
(***************************************************************************)
EXTENDS Integers, Sequences, FiniteSets, TLC

\* ------------------------------------------------------------------ bounds
MaxRules == 2        \* longest desired rule list (module.params['rules'])
MaxRemoteRules == 2  \* longest rule list of the remote group
MaxRuns == 2         \* invocations of the module in one behaviour

\* ------------------------------------------------------- python primitives
None == "None"
NoDict == <<>>

Falsy(s) == s \in {None, ""}
Truthy(d) == DOMAIN d # {}

\* dict.pop(k) for every k of ks that is present
Pop(d, ks) == [k \in (DOMAIN d) \ ks |-> d[k]]

\* d[k] = v
Put(d, k, v) == [x \in (DOMAIN d) \cup {k} |-> IF x = k THEN v ELSE d[x]]

\* {k: v for k, v in d.items() if k in ks}
Restrict(d, ks) == [k \in (DOMAIN d) \cap ks |-> d[k]]

\* list.index(x): position of the first element equal to x, 0 for ValueError
Index(seq, x) ==
    IF \E i \in 1..Len(seq) : seq[i] = x
    THEN CHOOSE i \in 1..Len(seq) : seq[i] = x /\ \A j \in 1..(i - 1) : seq[j] # x
    ELSE 0

\* list.pop(i), the remaining list
RemoveAt(seq, i) == [j \in 1..(Len(seq) - 1) |-> IF j < i THEN seq[j] ELSE seq[j + 1]]

\* ------------------------------------------------------------ compare_rules
\* the masked deep copy of one remote rule, for one local rule
MaskRule(local_rule, rules) ==
    IF "remote_group" \in DOMAIN local_rule
    THEN Pop(rules, {"cidr", "ethertype"})
    ELSE Pop(rules, {"remote_group"})

tmp_remote_rules(local_rule, remote_rules) ==
    [i \in 1..Len(remote_rules) |-> MaskRule(local_rule, remote_rules[i])]

RECURSIVE compare_rules_loop(_, _, _)
compare_rules_loop(local_rules, remote_rules, check_empty) ==
    IF local_rules = <<>>
    THEN (check_empty => Len(remote_rules) = 0)
    ELSE LET local_rule == Head(local_rules)
             pos == Index(tmp_remote_rules(local_rule, remote_rules), local_rule)
         IN  IF pos = 0
             THEN FALSE
             ELSE compare_rules_loop(Tail(local_rules), RemoveAt(remote_rules, pos),
                                     check_empty)

\* a compare_rules that forgets the final "pool is empty" test
compare_rules_no_empty_check(local_rules, remote_rules) ==
    compare_rules_loop(local_rules, remote_rules, FALSE)

compare_rules(local_rules, remote_rules) ==
    compare_rules_loop(local_rules, remote_rules, TRUE)

\* ------------------------------------------------------ compare_description
\* a compare_description that compares literally
compare_description_strict(description_1, description_2) ==
    description_1 = description_2

compare_description(description_1, description_2) ==
    IF description_1 = description_2
    THEN TRUE
    ELSE IF Falsy(description_1) = Falsy(description_2)
         THEN TRUE
         ELSE FALSE

\* ------------------------------------------------------------------ inputs
\* rules that pass validation
rCidr == [from_port |-> 80, to_port |-> 80, protocol |-> "tcp", cidr |-> "0.0.0.0/0"]
rGroup == [from_port |-> 80, to_port |-> 80, protocol |-> "tcp", remote_group |-> "web"]
rGroupEther == [from_port |-> 80, to_port |-> 80, protocol |-> "tcp",
                remote_group |-> "web", ethertype |-> "IPv4"]
rV6 == [from_port |-> 80, to_port |-> 80, protocol |-> "tcp", cidr |-> "::/0",
        ethertype |-> "IPv6", direction |-> "egress"]
\* rules that fail validation, one per failure
xMissing == [from_port |-> 80, protocol |-> "tcp", cidr |-> "0.0.0.0/0"]
xBoth == [from_port |-> 80, to_port |-> 80, protocol |-> "tcp", cidr |-> "0.0.0.0/0",
          remote_group |-> "web"]
xNeither == [from_port |-> 80, to_port |-> 80, protocol |-> "tcp"]
xAddress == [from_port |-> 80, to_port |-> 80, protocol |-> "tcp", cidr |-> "999.1.1.1/33"]
xEthertype == [from_port |-> 80, to_port |-> 80, protocol |-> "tcp", cidr |-> "0.0.0.0/0",
               ethertype |-> "IPv5"]
xDirection == [from_port |-> 80, to_port |-> 80, protocol |-> "tcp", remote_group |-> "web",
               direction |-> "both"]

RawRules == {rCidr, rGroup, rGroupEther, rV6,
             xMissing, xBoth, xNeither, xAddress, xEthertype, xDirection}

\* rule records as the remote returns them
nCidr == [from_port |-> 80, to_port |-> 80, protocol |-> "tcp", cidr |-> "0.0.0.0/0",
          ethertype |-> "IPv4", direction |-> "ingress", id |-> "rule-1"]
nGroup == [from_port |-> 80, to_port |-> 80, protocol |-> "tcp",
           remote_group |-> "url-web", direction |-> "ingress"]
nBoth == [from_port |-> 80, to_port |-> 80, protocol |-> "tcp", cidr |-> "0.0.0.0/0",
          ethertype |-> "IPv4", direction |-> "ingress", remote_group |-> "url-web"]

\* remote rule records of the reconciled group / of the comparison's inputs
RemoteRules == {nCidr}
CompareRemoteRules == {nCidr, nGroup, nBoth}

SeqsUpTo(S, n) == UNION {[1..k -> S] : k \in 0..n}

Descriptions == {None, "a", "b"}
RemoteDescriptions == {"", "a"}

GroupName == "sg"
WebGroup == [uuid |-> "uuid-web", url |-> "url-web", description |-> "", rules |-> <<>>]

Params ==
    [tenant : {None, "tenant-1"}, waldur_resource : {None, "resource-1"},
     name : {GroupName}, description : Descriptions,
     rules : SeqsUpTo(RawRules, MaxRules), state : {"present", "absent"}]

RemoteGroups ==
    {NoDict} \cup
    [uuid : {"uuid-sg"}, url : {"url-sg"}, description : RemoteDescriptions,
     rules : SeqsUpTo(RemoteRules, MaxRemoteRules)]

\* ipaddress.IPv4Interface / IPv6Interface accept exactly these of the addresses above
ValidIPv4 == {"0.0.0.0/0"}
ValidIPv6 == {"::/0"}

\* ------------------------------------------------------------------- state
VARIABLES
    params,          \* module.params
    remote,          \* the remote's security groups of the tenant, by name
    pc,              \* position in main / send_request_to_waldur
    tenant,          \* local tenant
    rules,           \* local rules (the list is rewritten in place by validation)
    idx,             \* position of the validation loop in rules
    security_group,  \* local security_group
    has_changed,     \* local has_changed
    calls,           \* collaborator calls issued by this invocation, in order
    outcome,         \* how the invocation ended: exit_json, fail_json or uncaught
    msg,             \* the failure's message
    changed,         \* the changed= value reported by exit_json
    run,             \* number of the invocation
    \* compare_rules applied on its own to drawn inputs
    cmp_pc,          \* raw, validated, rejected, compared, compared_self (off: unused)
    local_rules,     \* compare_rules' local_rules
    remote_rules,    \* compare_rules' remote_rules
    equal            \* what compare_rules returned

mainvars == <<params, remote, pc, tenant, rules, idx, security_group, has_changed,
              calls, outcome, msg, changed, run>>
cmpvars == <<cmp_pc, local_rules, remote_rules, equal>>
vars == <<mainvars, cmpvars>>

Call(op, args) == [op |-> op, args |-> args]

MutatingOps == {"create_security_group", "update_security_group_description",
                "update_security_group_rules", "delete_security_group"}

\* ------------------------------------------------- statement order of the code
\* validation moved behind the apply branch
SuccessorValidateLast(phase) ==
    CASE phase = "tenant" -> "fetch"
      [] phase = "fetch" -> "branch"
      [] phase = "branch" -> "update_description"
      [] phase = "update_description" -> "update_rules"
      [] phase = "update_rules" -> "validate"
      [] phase = "validate" -> "return"

\* the group is fetched before the rules are validated
SuccessorFetchFirst(phase) ==
    CASE phase = "tenant" -> "fetch"
      [] phase = "fetch" -> "validate"
      [] phase = "validate" -> "branch"
      [] phase = "branch" -> "update_description"
      [] phase = "update_description" -> "update_rules"
      [] phase = "update_rules" -> "return"

\* the rules are updated before the description
SuccessorRulesFirst(phase) ==
    CASE phase = "tenant" -> "validate"
      [] phase = "validate" -> "fetch"
      [] phase = "fetch" -> "branch"
      [] phase = "branch" -> "update_rules"
      [] phase = "update_rules" -> "update_description"
      [] phase = "update_description" -> "return"

\* the statement that follows each block of send_request_to_waldur
Successor(phase) ==
    CASE phase = "tenant" -> "validate"
      [] phase = "validate" -> "fetch"
      [] phase = "fetch" -> "branch"
      [] phase = "branch" -> "update_description"
      [] phase = "update_description" -> "update_rules"
      [] phase = "update_rules" -> "return"

\* ------------------------------------------------------- the validation loop
\* state is compared with 'absent' instead
present_inverted(state) == state = "absent"

present(state) == state = "present"

RequiredItems == <<"from_port", "to_port", "protocol">>

Ok(rule, lookup) == [kind |-> "ok", msg |-> <<>>, rule |-> rule, lookup |-> lookup]
Fail(rule, lookup, m) == [kind |-> "fail_json", msg |-> m, rule |-> rule, lookup |-> lookup]

\* the direction block of the loop body
check_direction(rule, lookup) ==
    IF "direction" \notin DOMAIN rule
    THEN Ok(Put(rule, "direction", "ingress"), lookup)
    ELSE IF rule["direction"] \notin {"ingress", "egress"}
         THEN Fail(rule, lookup,
                   <<"Invalid direction %s expected ingress or egress", rule["direction"]>>)
         ELSE Ok(rule, lookup)

\* One iteration of the validation loop on rule. ok: the remote-group lookup,
\* if one is made, returns; remote_group: what it returns (NoDict for None).
validate_rule(rule, ok, remote_group) ==
    LET missing == {i \in 1..Len(RequiredItems) : RequiredItems[i] \notin DOMAIN rule}
    IN
    IF missing # {}
    THEN Fail(rule, FALSE,
              <<"A rule must contain %s parameter.",
                RequiredItems[CHOOSE i \in missing : \A j \in missing : i <= j]>>)
    ELSE IF "cidr" \in DOMAIN rule /\ "remote_group" \in DOMAIN rule
    THEN Fail(rule, FALSE, <<"Either cidr or remote_group must be specified, not both.">>)
    ELSE IF "remote_group" \in DOMAIN rule
    THEN IF ~ok
         THEN [kind |-> "client_error", msg |-> <<"WaldurClientException">>,
               rule |-> rule, lookup |-> TRUE]
         ELSE IF ~Truthy(remote_group)
         THEN [kind |-> "type_error",
               msg |-> <<"TypeError: 'NoneType' object is not subscriptable">>,
               rule |-> rule, lookup |-> TRUE]
         ELSE check_direction(Put(rule, "remote_group", remote_group["url"]), TRUE)
    ELSE IF "cidr" \in DOMAIN rule
    THEN LET address == rule["cidr"]
         IN  IF "ethertype" \notin DOMAIN rule \/ rule["ethertype"] = "IPv4"
             THEN IF address \notin ValidIPv4
                  THEN Fail(rule, FALSE, <<"Invalid IPv4 address %s: %s", address>>)
                  ELSE check_direction(Put(rule, "ethertype", "IPv4"), FALSE)
             ELSE IF rule["ethertype"] = "IPv6"
             THEN IF address \notin ValidIPv6
                  THEN Fail(rule, FALSE, <<"Invalid IPv6 address %s: %s", address>>)
                  ELSE check_direction(rule, FALSE)
             ELSE Fail(rule, FALSE, <<"Invalid ethertype: %s", rule["ethertype"]>>)
    ELSE Fail(rule, FALSE, <<"Either cidr or remote_group must be specified.">>)

ComparedKeys == {"from_port", "to_port", "cidr", "protocol", "direction",
                 "description", "ethertype", "remote_group"}

\* rules_comp: the remote group's rules restricted to the compared keys
rules_comp(group) == [i \in 1..Len(group["rules"]) |-> Restrict(group["rules"][i], ComparedKeys)]

\* description = module.params.get('description') or ''
description_of(p) == IF Falsy(p["description"]) THEN "" ELSE p["description"]

\* ----------------------------------------------------------------- actions
TenantUuid == "tenant-1"

Init ==
    /\ params \in {p \in Params : Falsy(p.tenant) \/ Falsy(p.waldur_resource)}
    /\ remote \in [{GroupName} -> RemoteGroups] \X {NoDict, WebGroup}
    /\ pc = "tenant"
    /\ tenant = None
    /\ rules = <<>>
    /\ idx = 1
    /\ security_group = NoDict
    /\ has_changed = FALSE
    /\ calls = <<>>
    /\ outcome = "none"
    /\ msg = <<>>
    /\ changed = FALSE
    /\ run = 1
    /\ cmp_pc = "off"
    /\ local_rules = <<>>
    /\ remote_rules = <<>>
    /\ equal = FALSE

\* the remote's group of the given name, NoDict when there is none
RemoteGroup(name) == IF name = GroupName THEN remote[1][GroupName] ELSE remote[2]

\* the invocation ends in a failure of the given kind
Abort(kind, m) ==
    /\ pc' = "done"
    /\ outcome' = kind
    /\ msg' = m

\* main(): except WaldurClientException as e: module.fail_json(msg=str(e))
ClientFailure == Abort("fail_json", <<"WaldurClientException">>)

\* has_changed = False ... rules = module.params['rules'], with get_tenant_uuid
ResolveTenant ==
    /\ pc = "tenant"
    /\ rules' = params.rules
    /\ idx' = 1
    /\ UNCHANGED <<params, remote, security_group, has_changed, changed, run, cmpvars>>
    /\ \/ /\ Falsy(params.tenant) /\ Falsy(params.waldur_resource)
          /\ Abort("uncaught",
                   <<"AnsibleError", "Tenant or waldur_resource must be specified.">>)
          /\ UNCHANGED <<tenant, calls>>
       \/ /\ ~Falsy(params.tenant)
          /\ tenant' = params.tenant
          /\ pc' = Successor("tenant")
          /\ UNCHANGED <<calls, outcome, msg>>
       \/ /\ Falsy(params.tenant) /\ ~Falsy(params.waldur_resource)
          /\ \/ /\ calls' = calls \o <<Call("get_marketplace_resource",
                                            <<params.waldur_resource>>)>>
                /\ ClientFailure
                /\ UNCHANGED tenant
             \/ /\ calls' = calls \o <<Call("get_marketplace_resource",
                                            <<params.waldur_resource>>),
                                       Call("_get", <<"scope-url">>)>>
                /\ \/ ClientFailure /\ UNCHANGED tenant
                   \/ /\ tenant' = TenantUuid
                      /\ pc' = Successor("tenant")
                      /\ UNCHANGED <<outcome, msg>>

\* one iteration of: for rule in rules
ValidateRule ==
    /\ pc = "validate"
    /\ idx <= Len(rules)
    /\ \E ok \in BOOLEAN :
         LET rule == rules[idx]
             name == IF "remote_group" \in DOMAIN rule THEN rule["remote_group"] ELSE None
             res == validate_rule(rule, ok, RemoteGroup(name))
         IN  /\ calls' = IF res.lookup
                         THEN calls \o <<Call("get_security_group", <<tenant, name>>)>>
                         ELSE calls
             /\ rules' = [rules EXCEPT ![idx] = res.rule]
             /\ IF res.kind = "ok"
                THEN /\ idx' = idx + 1
                     /\ UNCHANGED <<pc, outcome, msg>>
                ELSE /\ Abort(IF res.kind = "type_error" THEN "uncaught" ELSE "fail_json",
                              res.msg)
                     /\ UNCHANGED idx
    /\ UNCHANGED <<params, remote, tenant, security_group, has_changed, changed, run, cmpvars>>

\* the loop is exhausted
ValidateDone ==
    /\ pc = "validate"
    /\ idx > Len(rules)
    /\ pc' = Successor("validate")
    /\ UNCHANGED <<params, remote, tenant, rules, idx, security_group, has_changed,
                   calls, outcome, msg, changed, run, cmpvars>>

\* security_group = client.get_security_group(tenant, name)
Fetch ==
    /\ pc = "fetch"
    /\ calls' = calls \o <<Call("get_security_group", <<tenant, params.name>>)>>
    /\ \/ ClientFailure /\ UNCHANGED security_group
       \/ /\ security_group' = RemoteGroup(params.name)
          /\ pc' = Successor("fetch")
          /\ UNCHANGED <<outcome, msg>>
    /\ UNCHANGED <<params, remote, tenant, rules, idx, has_changed, changed, run, cmpvars>>

\* ---- the remote's side of the mutating calls: it stores what it is sent
SetGroup(group) == <<[remote[1] EXCEPT ![GroupName] = group], remote[2]>>

StoreCreated(description, rule_list) ==
    SetGroup([uuid |-> "uuid-sg", url |-> "url-sg", description |-> description,
              rules |-> rule_list])

StoreDescription(description) ==
    SetGroup([RemoteGroup(GroupName) EXCEPT !["description"] = description])

StoreRules(rule_list) ==
    SetGroup([RemoteGroup(GroupName) EXCEPT !["rules"] = rule_list])

StoreDeleted == SetGroup(NoDict)

\* if security_group: ... elif present: ... up to the first update call
Branch ==
    /\ pc = "branch"
    /\ UNCHANGED <<params, tenant, rules, idx, security_group, changed, run, cmpvars>>
    /\ IF Truthy(security_group)
       THEN IF present(params.state)
            THEN IF compare_description(security_group["description"],
                                        description_of(params))
                    /\ compare_rules(rules, rules_comp(security_group))
                 THEN /\ has_changed' = FALSE
                      /\ pc' = "return"
                      /\ UNCHANGED <<remote, calls, outcome, msg>>
                 ELSE /\ pc' = Successor("branch")
                      /\ UNCHANGED <<remote, has_changed, calls, outcome, msg>>
            ELSE /\ calls' = calls \o <<Call("delete_security_group",
                                             <<security_group["uuid"]>>)>>
                 /\ \/ ClientFailure /\ UNCHANGED <<remote, has_changed>>
                    \/ /\ remote' = StoreDeleted
                       /\ has_changed' = TRUE
                       /\ pc' = "return"
                       /\ UNCHANGED <<outcome, msg>>
       ELSE IF present(params.state)
            THEN /\ calls' = calls \o <<Call("create_security_group",
                                             <<tenant, params.name, description_of(params),
                                               rules>>)>>
                 /\ \/ ClientFailure /\ UNCHANGED <<remote, has_changed>>
                    \/ /\ remote' = StoreCreated(description_of(params), rules)
                       /\ has_changed' = TRUE
                       /\ pc' = "return"
                       /\ UNCHANGED <<outcome, msg>>
            ELSE /\ pc' = "return"
                 /\ UNCHANGED <<remote, has_changed, calls, outcome, msg>>

\* if not compare_description(...): client.update_security_group_description(...)
UpdateDescription ==
    /\ pc = "update_description"
    /\ UNCHANGED <<params, tenant, rules, idx, security_group, changed, run, cmpvars>>
    /\ IF ~compare_description(security_group["description"], description_of(params))
       THEN /\ calls' = calls \o <<Call("update_security_group_description",
                                        <<security_group["uuid"], description_of(params)>>)>>
            /\ \/ ClientFailure /\ UNCHANGED <<remote, has_changed>>
               \/ /\ remote' = StoreDescription(description_of(params))
                  /\ has_changed' = TRUE
                  /\ pc' = Successor("update_description")
                  /\ UNCHANGED <<outcome, msg>>
       ELSE /\ pc' = Successor("update_description")
            /\ UNCHANGED <<remote, has_changed, calls, outcome, msg>>

\* if not compare_rules(...): client.update_security_group_rules(...)
UpdateRules ==
    /\ pc = "update_rules"
    /\ UNCHANGED <<params, tenant, rules, idx, security_group, changed, run, cmpvars>>
    /\ IF ~compare_rules(rules, rules_comp(security_group))
       THEN /\ calls' = calls \o <<Call("update_security_group_rules",
                                        <<security_group["uuid"], rules>>)>>
            /\ \/ ClientFailure /\ UNCHANGED <<remote, has_changed>>
               \/ /\ remote' = StoreRules(rules)
                  /\ has_changed' = TRUE
                  /\ pc' = Successor("update_rules")
                  /\ UNCHANGED <<outcome, msg>>
       ELSE /\ pc' = Successor("update_rules")
            /\ UNCHANGED <<remote, has_changed, calls, outcome, msg>>

\* return has_changed; main(): module.exit_json(changed=has_changed)
Return ==
    /\ pc = "return"
    /\ pc' = "done"
    /\ outcome' = "exit_json"
    /\ changed' = has_changed
    /\ UNCHANGED <<params, remote, tenant, rules, idx, security_group, has_changed,
                   calls, msg, run, cmpvars>>

\* the module is invoked again with the same parameters
Rerun ==
    /\ pc = "done"
    /\ outcome = "exit_json"
    /\ run < MaxRuns
    /\ run' = run + 1
    /\ pc' = "tenant"
    /\ tenant' = None
    /\ rules' = <<>>
    /\ idx' = 1
    /\ security_group' = NoDict
    /\ has_changed' = FALSE
    /\ calls' = <<>>
    /\ outcome' = "none"
    /\ msg' = <<>>
    /\ changed' = FALSE
    /\ UNCHANGED <<params, remote, cmpvars>>

Next ==
    \/ ResolveTenant
    \/ ValidateRule
    \/ ValidateDone
    \/ Fetch
    \/ Branch
    \/ UpdateDescription
    \/ UpdateRules
    \/ Return
    \/ Rerun

Spec == Init /\ [][Next]_vars

\* ------------------------------------------- compare_rules applied on its own
\* the validation loop run over a whole list with every remote-group lookup
\* answered by group; <<>> of a list that fails validation is told by ok
RECURSIVE validate_all(_, _)
validate_all(rule_list, group) ==
    IF rule_list = <<>>
    THEN [ok |-> TRUE, rules |-> <<>>]
    ELSE LET res == validate_rule(Head(rule_list), TRUE, group)
             rest == validate_all(Tail(rule_list), group)
         IN  IF res.kind = "ok" /\ rest.ok
             THEN [ok |-> TRUE, rules |-> <<res.rule>> \o rest.rules]
             ELSE [ok |-> FALSE, rules |-> <<>>]

InitCompare ==
    /\ params = [tenant |-> "tenant-1", waldur_resource |-> None, name |-> GroupName,
                 description |-> None, rules |-> <<>>, state |-> "present"]
    /\ remote = <<[n \in {GroupName} |-> NoDict], WebGroup>>
    /\ pc = "done"
    /\ tenant = None
    /\ rules = <<>>
    /\ idx = 1
    /\ security_group = NoDict
    /\ has_changed = FALSE
    /\ calls = <<>>
    /\ outcome = "none"
    /\ msg = <<>>
    /\ changed = FALSE
    /\ run = 1
    /\ cmp_pc = "raw"
    /\ local_rules \in SeqsUpTo(RawRules, MaxRules)
    /\ remote_rules \in SeqsUpTo(CompareRemoteRules, MaxRemoteRules)
    /\ equal = FALSE

\* the desired rules pass through the validation loop (lines 332-371)
NormalizeRules ==
    /\ cmp_pc = "raw"
    /\ LET res == validate_all(local_rules, WebGroup)
       IN  IF res.ok
           THEN local_rules' = res.rules /\ cmp_pc' = "validated"
           ELSE local_rules' = local_rules /\ cmp_pc' = "rejected"
    /\ UNCHANGED <<remote_rules, equal, mainvars>>

\* compare_rules(rules, rules_comp)
CompareRemote ==
    /\ cmp_pc = "validated"
    /\ equal' = compare_rules(local_rules, rules_comp([rules |-> remote_rules]))
    /\ cmp_pc' = "compared"
    /\ UNCHANGED <<local_rules, remote_rules, mainvars>>

\* compare_rules(rules, rules): the list against itself
CompareSelf ==
    /\ cmp_pc = "validated"
    /\ remote_rules' = local_rules
    /\ equal' = compare_rules(local_rules, local_rules)
    /\ cmp_pc' = "compared_self"
    /\ UNCHANGED <<local_rules, mainvars>>

NextCompare ==
    \/ NormalizeRules
    \/ CompareRemote
    \/ CompareSelf

SpecCompare == InitCompare /\ [][NextCompare]_vars

\* -------------------------------------------------------------- properties
Mutating(cs) == SelectSeq(cs, LAMBDA c : c.op \in MutatingOps)
Issued(op) == \E i \in 1..Len(calls) : calls[i].op = op
Finished(kind) == pc = "done" /\ outcome = kind

ValidationMessages ==
    {"A rule must contain %s parameter.",
     "Either cidr or remote_group must be specified, not both.",
     "Either cidr or remote_group must be specified.",
     "Invalid IPv4 address %s: %s", "Invalid IPv6 address %s: %s",
     "Invalid ethertype: %s", "Invalid direction %s expected ingress or egress"}

\* the invocation ended in a validation failure
ValidationFailed == Finished("fail_json") /\ msg # <<>> /\ msg[1] \in ValidationMessages

\* C1: in an invocation that completes (tenant resolved, rules valid, no call
\* failed): absent/absent issues no mutating call and reports changed=false;
\* absent/present issues exactly one delete keyed by the group's uuid and reports
\* changed=true; present/absent issues exactly one create and reports
\* changed=true; present/present never creates or deletes; and changed is true
\* exactly when a mutating call was issued.
C1_BranchTable ==
    Finished("exit_json") =>
        LET m == Mutating(calls)
            exists == Truthy(security_group)
            want == params.state = "present"
        IN  /\ (~want /\ ~exists) => (m = <<>> /\ ~changed)
            /\ (~want /\ exists) =>
                   /\ Len(m) = 1
                   /\ m[1].op = "delete_security_group"
                   /\ m[1].args = <<security_group["uuid"]>>
                   /\ changed
            /\ (want /\ ~exists) =>
                   (Len(m) = 1 /\ m[1].op = "create_security_group" /\ changed)
            /\ (want /\ exists) =>
                   \A i \in 1..Len(m) :
                       m[i].op \notin {"create_security_group", "delete_security_group"}
            /\ changed <=> (m # <<>>)

C1_Witness ==
    /\ Finished("exit_json")
    /\ params.state = "absent"
    /\ Truthy(security_group)
    /\ Len(security_group["rules"]) > 0
    /\ Issued("delete_security_group")
    /\ changed

\* C2: a second invocation with the same parameters, after a first one that
\* completed, issues no mutating call and reports changed=false.
C2_Idempotent ==
    (run >= 2 /\ Finished("exit_json")) => (Mutating(calls) = <<>> /\ ~changed)

\* C3: an invocation that ends in a validation failure has issued no mutating
\* call, wherever the invalid rule stands in the list and whatever state is.
C3_ValidateBeforeMutate ==
    ValidationFailed => Mutating(calls) = <<>>

C3_Witness ==
    /\ ValidationFailed
    /\ idx = 2
    /\ params.state = "absent"
    /\ Truthy(RemoteGroup(GroupName))
    /\ Issued("get_security_group")

\* the remote-group name a raw rule looks up, None when it has none
LookupName(rule) ==
    IF "remote_group" \in DOMAIN rule THEN rule["remote_group"] ELSE None

\* C4 as stated: a validation failure is raised before any remote read or
\* mutation, so no collaborator call at all has been issued.
C4_NoCallBeforeFailure ==
    ValidationFailed => calls = <<>>

\* C4 amended: the rule that fails is the first invalid one in list order, the
\* rules after it are untouched, and the failure is raised before the reconciled
\* group is fetched and before any mutation; the only calls issued are the
\* tenant resolution and the remote-group lookups of the rules up to it.
C4_FailFast ==
    ValidationFailed =>
        /\ idx \in 1..Len(params.rules)
        /\ \A j \in 1..(idx - 1) :
               validate_rule(params.rules[j], TRUE,
                             RemoteGroup(LookupName(params.rules[j]))).kind = "ok"
        /\ validate_rule(params.rules[idx], TRUE,
                         RemoteGroup(LookupName(params.rules[idx]))).kind = "fail_json"
        /\ \A j \in (idx + 1)..Len(rules) : rules[j] = params.rules[j]
        /\ Mutating(calls) = <<>>
        /\ \A i \in 1..Len(calls) :
               \/ calls[i].op \in {"get_marketplace_resource", "_get"}
               \/ /\ calls[i].op = "get_security_group"
                  /\ calls[i].args[2] # params.name
                  /\ \E j \in 1..idx : calls[i].args[2] = LookupName(params.rules[j])

C4_Witness ==
    /\ ValidationFailed
    /\ idx = 2
    /\ Issued("get_marketplace_resource")
    /\ Issued("get_security_group")

\* ---- compare_rules
\* the rearrangements of a list
Perms(seq) ==
    {[i \in 1..Len(seq) |-> seq[f[i]]] :
        f \in {g \in [1..Len(seq) -> 1..Len(seq)] :
                  \A i, j \in 1..Len(seq) : g[i] = g[j] => i = j}}

\* a one-to-one pairing of all desired rules onto all remote rules in which each
\* remote rule, masked for its desired rule, equals that desired rule
ExistsPairing(desired, pool) ==
    /\ Len(desired) = Len(pool)
    /\ \E q \in Perms(pool) :
           \A i \in 1..Len(desired) : MaskRule(desired[i], q[i]) = desired[i]

\* the remote list as compare_rules receives it
ComparedRemote == rules_comp([rules |-> remote_rules])

\* C5: compare_rules returns true whenever such a pairing exists, and its result
\* does not depend on the order of the desired rules or of the remote rules.
C5_MultisetEquality ==
    cmp_pc = "compared" =>
        /\ ExistsPairing(local_rules, ComparedRemote) => equal
        /\ \A l \in Perms(local_rules) : \A r \in Perms(ComparedRemote) :
               compare_rules(l, r) = equal

\* C6: a list of rules that passed validation is equivalent to itself.
C6_Reflexive ==
    cmp_pc = "compared_self" => equal

\* C7: when compare_rules returns true every desired rule is paired with a
\* distinct remote rule equal to it under its mask and no remote rule is left
\* over, so the lists have the same length; lists of different lengths ([R,R]
\* against [R], [R] against [], [] against [R]) are not equivalent and [] against
\* [] is.
C7_MatchedOneToOne ==
    cmp_pc = "compared" =>
        /\ equal => (Len(local_rules) = Len(ComparedRemote)
                     /\ ExistsPairing(local_rules, ComparedRemote))
        /\ Len(local_rules) # Len(ComparedRemote) => ~equal
        /\ (local_rules = <<>> /\ ComparedRemote = <<>>) => equal

C7_Witness ==
    /\ cmp_pc = "compared"
    /\ equal
    /\ Len(local_rules) = 2
    /\ local_rules[1] = local_rules[2]
    /\ remote_rules[1] # remote_rules[2]

\* ---- the update branch
Count(op) == Len(SelectSeq(calls, LAMBDA c : c.op = op))

\* C8: in a completed invocation with state=present and the group present,
\* update_security_group_description is issued exactly when compare_description
\* is false, which is exactly when one description is empty and the other is not;
\* update_security_group_rules is issued, with the whole validated rule list,
\* exactly when compare_rules is false; changed is true exactly when one of the
\* two was issued.
C8_IndependentUpdates ==
    (Finished("exit_json") /\ params.state = "present" /\ Truthy(security_group)) =>
        LET old == security_group["description"]
            new == description_of(params)
        IN  /\ Issued("update_security_group_description")
                   <=> ~compare_description(old, new)
            /\ ~compare_description(old, new) <=> ((old = "") # (new = ""))
            /\ Issued("update_security_group_rules")
                   <=> ~compare_rules(rules, rules_comp(security_group))
            /\ \A i \in 1..Len(calls) :
                   calls[i].op = "update_security_group_rules"
                       => calls[i].args = <<security_group["uuid"], rules>>
            /\ Count("update_security_group_description") <= 1
            /\ Count("update_security_group_rules") <= 1
            /\ changed <=> (Issued("update_security_group_description")
                            \/ Issued("update_security_group_rules"))

C8_Witness ==
    /\ Finished("exit_json")
    /\ params.state = "present"
    /\ Truthy(security_group)
    /\ security_group["description"] = "a"
    /\ description_of(params) = "b"
    /\ ~Issued("update_security_group_description")
    /\ Issued("update_security_group_rules")
    /\ changed

\* C9: every error ends the invocation as a reported module failure (fail_json)
\* with a message, and nothing is called after it.
C9_ReportedFailure ==
    (pc = "done" /\ outcome # "exit_json") =>
        (outcome = "fail_json" /\ msg # <<>> /\ ~ENABLED Next)

\* C10: the description update is issued before the rules update; when the rules
\* update fails after the description update was issued, the invocation ends in
\* failure with that call its last, the remote keeps the new description and its
\* rules are unchanged.
C10_NotTransactional ==
    /\ \A i, j \in 1..Len(calls) :
           (calls[i].op = "update_security_group_description"
            /\ calls[j].op = "update_security_group_rules") => i < j
    /\ (/\ outcome = "fail_json"
        /\ calls # <<>>
        /\ calls[Len(calls)].op = "update_security_group_rules"
        /\ Issued("update_security_group_description"))
       => /\ pc = "done"
          /\ ~ENABLED Next
          /\ Mutating(calls)
               = <<Call("update_security_group_description",
                        <<security_group["uuid"], description_of(params)>>),
                   Call("update_security_group_rules",
                        <<security_group["uuid"], rules>>)>>
          /\ RemoteGroup(GroupName)["description"] = description_of(params)
          /\ RemoteGroup(GroupName)["description"] # security_group["description"]
          /\ RemoteGroup(GroupName)["rules"] = security_group["rules"]

C10_Witness ==
    /\ Finished("fail_json")
    /\ calls # <<>>
    /\ calls[Len(calls)].op = "update_security_group_rules"
    /\ Issued("update_security_group_description")
    /\ Len(security_group["rules"]) > 0

====
